---- MODULE Spec2Model ----
(***************************************************************************)
(* Model of deepchem/feat/bio_seq_featurizer.py: one call of _featurize of *)
(* SAMFeaturizer, BAMFeaturizer, CRAMFeaturizer or FASTAFeaturizer on a    *)
(* pysam stream.  The stream is the abstract record source the code uses:  *)
(* next (iteration), tell, seek, pileup and close.  Any stream operation   *)
(* may raise.                                                              *)
(***************************************************************************)
EXTENDS Integers, Sequences, FiniteSets, TLC

\* ---------------------------------------------------------------- bounds
MaxLen == 3        \* longest record stream / FASTA file
MaxCap == 3        \* largest max_records
MaxPileup == 2     \* longest pileup column list

\* ------------------------------------------------------- Python values
None == "None"
\* max_records=None (the default): no cap
MaxRecordsNone == -1

\* ------------------------------------------------- the stream's contents
\* pysam.AlignedSegment values; the second one is an unmapped read whose
\* nullable attributes are None
RecordA ==
    [query_name |-> "read1", query_sequence |-> "ACGT", query_length |-> 4,
     reference_name |-> "chr1", reference_start |-> 7,
     cigar |-> << <<0, 4>> >>, mapping_quality |-> 60,
     is_reverse |-> FALSE, query_qualities |-> <<30, 31>>]
RecordB ==
    [query_name |-> None, query_sequence |-> None, query_length |-> 0,
     reference_name |-> None, reference_start |-> -1,
     cigar |-> << >>, mapping_quality |-> 0,
     is_reverse |-> TRUE, query_qualities |-> << >>]
Records == {RecordA, RecordB}

\* pysam.PileupColumn values with their pysam.PileupRead lists; the read that
\* is a deletion has no query position
PileupColumnA ==
    [reference_name |-> "chr1", reference_pos |-> 7, nsegments |-> 1,
     pileups |-> << [alignment |-> RecordA, query_position |-> 0,
                     is_del |-> 0, is_refskip |-> 0, indel |-> 0] >>]
PileupColumnB ==
    [reference_name |-> "chr1", reference_pos |-> 8, nsegments |-> 2,
     pileups |-> << [alignment |-> RecordA, query_position |-> 1,
                     is_del |-> 0, is_refskip |-> 0, indel |-> 2],
                    [alignment |-> RecordB, query_position |-> None,
                     is_del |-> 1, is_refskip |-> 0, indel |-> 0] >>]
PileupColumns == {PileupColumnA, PileupColumnB}

\* pysam FastxFile entries
EntryA == [name |-> "seq1", sequence |-> "ACGT"]
EntryB == [name |-> "seq2", sequence |-> "TTTT"]
Entries == {EntryA, EntryB}

\* errors the library can raise
Errors == {"OSError", "ValueError"}

SeqsUpTo(S, n) == UNION {[1..k -> S] : k \in 0..n}

\* ------------------------------------------------------ stream operations
\* iteration is at its end: __next__ raises StopIteration
AtEnd(dp) == dp.pos >= Len(dp.records)
\* the record __next__ returns
NextRecord(dp) == dp.records[dp.pos + 1]
\* the stream after __next__ returned a record
Advance(dp) == [dp EXCEPT !.pos = dp.pos + 1]
\* datapoint.tell()
Tell(dp) == dp.pos
\* datapoint.seek(position), ignored
SeekIgnored(dp, position) == dp
\* datapoint.seek(position)
Seek(dp, position) == [dp EXCEPT !.pos = position]
\* datapoint.close()
Close(dp) == [dp EXCEPT !.closed = TRUE]

\* ------------------------------------------------------------- conversions
\* np.array(record.query_qualities)
NdArray(values) == [ndarray |-> values]
\* np.array(features, dtype="object"): a table with a shape
NpArray(rows) ==
    [shape |-> IF Len(rows) = 0 THEN <<0>> ELSE <<Len(rows), Len(rows[1])>>,
     rows |-> rows]

\* ------------------------------------------------------------ row builders
SAMRow(record) ==
    <<record.query_name, record.query_sequence, record.query_length,
      record.reference_name, record.reference_start, record.cigar,
      record.mapping_quality>>

CRAMRow(record) ==
    <<record.query_name, record.query_sequence, record.query_length,
      record.reference_name, record.reference_start, record.cigar,
      record.mapping_quality>>

\* one pileup column as the dict the code builds
PileupInfo(pileupcolumn) ==
    [name |-> pileupcolumn.reference_name,
     pos |-> pileupcolumn.reference_pos,
     depth |-> pileupcolumn.nsegments,
     reads |-> [i \in 1..Len(pileupcolumn.pileups) |->
                  <<pileupcolumn.pileups[i].alignment.query_sequence,
                    pileupcolumn.pileups[i].query_position,
                    pileupcolumn.pileups[i].is_del,
                    pileupcolumn.pileups[i].is_refskip,
                    pileupcolumn.pileups[i].indel>>]]

BAMBaseRow(record) ==
    <<record.query_name, record.query_sequence, record.query_length,
      record.reference_name, record.reference_start, record.cigar,
      record.mapping_quality, record.is_reverse,
      NdArray(record.query_qualities)>>

\* a row that carries only the pileup columns at the record's own position
BAMRowLocalPileup(record, get_pileup, pileup_columns) ==
    IF get_pileup
    THEN Append(BAMBaseRow(record),
                SelectSeq(pileup_columns,
                          LAMBDA c : c.pos = record.reference_start))
    ELSE BAMBaseRow(record)

\* a row that carries the pileup list whatever get_pileup says
BAMRowAlwaysPileup(record, get_pileup, pileup_columns) ==
    Append(BAMBaseRow(record), pileup_columns)

BAMRow(record, get_pileup, pileup_columns) ==
    IF get_pileup
    THEN Append(BAMBaseRow(record), pileup_columns)
    ELSE BAMBaseRow(record)

\* a row with the two fields exchanged
FASTARowSwapped(entry) == <<entry.sequence, entry.name>>

FASTARow(entry) == <<entry.name, entry.sequence>>

\* max_records is set and the count has reached it
CapReached(record_count_, max_records_) ==
    max_records_ # MaxRecordsNone /\ record_count_ >= max_records_

\* the position saved in the BAM loop body, taken before the iterator advanced
LoopTellBeforeAdvance(dp) == Tell(dp) - 1

\* the position saved in the BAM loop body (the iterator has advanced already)
LoopTell(dp) == Tell(dp)

\* an error handler that returns the rows gathered so far
Salvage(error, rows) == [exception |-> None, returned |-> <<NpArray(rows)>>]

\* no handler: the error leaves the call, no value is returned
Propagate(error, rows) == [exception |-> error, returned |-> << >>]

\* --------------------------------------------------------------- the state
VARIABLES
    cls,               \* the featurizer class whose _featurize runs
    max_records,       \* self.max_records
    get_pileup,        \* self.get_pileup
    datapoint,         \* the open stream handed to _featurize
    fasta,             \* the FastxFile the FASTA featurizer opens
    features,          \* features (data in the FASTA featurizer)
    record_count,      \* record_count
    pileup_columns,    \* pileup_columns
    initial_position,  \* initial_position
    record,            \* the loop variable (record / entry), as <<value>>
    pileup_iter,       \* columns the pileup iterator has yielded
    pc,                \* position in _featurize
    returned,          \* << >> or <<table>>: the value the call returned
    exception,         \* None or the error the call ended with
    entry_position,    \* observation: stream position when the call began
    pileup_calls,      \* observation: number of datapoint.pileup() calls
    pileup_end,        \* observation: <<position>> the pre-pass left the stream at
    next_log,          \* observation: indices of the records the main pass read
    pre_next,          \* observation: <<position>> before the last __next__
    stream_error       \* observation: None or the error the stream raised

vars == <<cls, max_records, get_pileup, datapoint, fasta, features,
          record_count, pileup_columns, initial_position, record, pileup_iter,
          pc, returned, exception, entry_position, pileup_calls, pileup_end,
          next_log, pre_next, stream_error>>

locals == <<features, record_count, pileup_columns, initial_position, record,
            pileup_iter>>
config == <<cls, max_records, get_pileup>>
outcome == <<returned, exception, stream_error>>
observed == <<entry_position, pileup_calls, pileup_end, next_log, pre_next>>

Caps == {MaxRecordsNone} \cup 0..MaxCap

NoStream == [records |-> << >>, pos |-> 0, closed |-> FALSE, pileup |-> << >>]
NoFasta == [entries |-> << >>, pos |-> 0, opened |-> FALSE, closed |-> FALSE]

InitCommon ==
    /\ features = << >>
    /\ record_count = 0
    /\ pileup_columns = << >>
    /\ initial_position = 0
    /\ record = << >>
    /\ pileup_iter = 0
    /\ returned = << >>
    /\ exception = None
    /\ entry_position = 0
    /\ pileup_calls = 0
    /\ pileup_end = << >>
    /\ next_log = << >>
    /\ pre_next = << >>
    /\ stream_error = None

InitAligned ==
    /\ cls \in {"SAM", "CRAM"}
    /\ max_records \in Caps
    /\ get_pileup = FALSE
    /\ \E rs \in SeqsUpTo(Records, MaxLen) :
          datapoint = [records |-> rs, pos |-> 0, closed |-> FALSE,
                       pileup |-> << >>]
    /\ fasta = NoFasta
    /\ pc = IF cls = "SAM" THEN "sam_begin" ELSE "cram_begin"

InitBAM ==
    /\ cls = "BAM"
    /\ max_records \in Caps
    /\ get_pileup \in BOOLEAN
    /\ \E rs \in SeqsUpTo(Records, MaxLen),
          ps \in SeqsUpTo(PileupColumns, MaxPileup) :
          datapoint = [records |-> rs, pos |-> 0, closed |-> FALSE,
                       pileup |-> ps]
    /\ fasta = NoFasta
    /\ pc = "bam_begin"

InitFASTA ==
    /\ cls = "FASTA"
    /\ max_records = MaxRecordsNone
    /\ get_pileup = FALSE
    /\ datapoint = NoStream
    /\ \E es \in SeqsUpTo(Entries, MaxLen) :
          fasta = [entries |-> es, pos |-> 0, opened |-> FALSE,
                   closed |-> FALSE]
    /\ pc = "fasta_begin"

Init == InitCommon /\ (InitAligned \/ InitBAM \/ InitFASTA)

\* ----------------------------------------------------------- SAMFeaturizer
SAM_Begin ==
    /\ pc = "sam_begin"
    /\ features' = << >>
    /\ record_count' = 0
    /\ pc' = "sam_for"
    /\ UNCHANGED <<config, datapoint, fasta, pileup_columns, initial_position,
                   record, pileup_iter, outcome, observed>>

\* for record in datapoint: the iterator yields the next record or stops
SAM_For ==
    /\ pc = "sam_for"
    /\ IF AtEnd(datapoint)
       THEN /\ pc' = "sam_close"
            /\ UNCHANGED <<datapoint, record, next_log, pre_next>>
       ELSE /\ record' = <<NextRecord(datapoint)>>
            /\ datapoint' = Advance(datapoint)
            /\ next_log' = Append(next_log, datapoint.pos + 1)
            /\ pre_next' = <<datapoint.pos>>
            /\ pc' = "sam_body"
    /\ UNCHANGED <<config, fasta, features, record_count, pileup_columns,
                   initial_position, pileup_iter, outcome, entry_position,
                   pileup_calls, pileup_end>>

SAM_Body ==
    /\ pc = "sam_body"
    /\ features' = Append(features, SAMRow(record[1]))
    /\ record_count' = record_count + 1
    /\ pc' = IF CapReached(record_count + 1, max_records)
             THEN "sam_close" ELSE "sam_for"
    /\ UNCHANGED <<config, datapoint, fasta, pileup_columns, initial_position,
                   record, pileup_iter, outcome, observed>>

SAM_Return ==
    /\ pc = "sam_close"
    /\ datapoint' = Close(datapoint)
    /\ returned' = <<NpArray(features)>>
    /\ pc' = "done"
    /\ UNCHANGED <<config, fasta, locals, exception, stream_error, observed>>

\* ---------------------------------------------------------- CRAMFeaturizer
CRAM_Begin ==
    /\ pc = "cram_begin"
    /\ features' = << >>
    /\ record_count' = 0
    /\ pc' = "cram_for"
    /\ UNCHANGED <<config, datapoint, fasta, pileup_columns, initial_position,
                   record, pileup_iter, outcome, observed>>

CRAM_For ==
    /\ pc = "cram_for"
    /\ IF AtEnd(datapoint)
       THEN /\ pc' = "cram_close"
            /\ UNCHANGED <<datapoint, record, next_log, pre_next>>
       ELSE /\ record' = <<NextRecord(datapoint)>>
            /\ datapoint' = Advance(datapoint)
            /\ next_log' = Append(next_log, datapoint.pos + 1)
            /\ pre_next' = <<datapoint.pos>>
            /\ pc' = "cram_body"
    /\ UNCHANGED <<config, fasta, features, record_count, pileup_columns,
                   initial_position, pileup_iter, outcome, entry_position,
                   pileup_calls, pileup_end>>

CRAM_Body ==
    /\ pc = "cram_body"
    /\ features' = Append(features, CRAMRow(record[1]))
    /\ record_count' = record_count + 1
    /\ pc' = IF CapReached(record_count + 1, max_records)
             THEN "cram_close" ELSE "cram_for"
    /\ UNCHANGED <<config, datapoint, fasta, pileup_columns, initial_position,
                   record, pileup_iter, outcome, observed>>

CRAM_Return ==
    /\ pc = "cram_close"
    /\ datapoint' = Close(datapoint)
    /\ returned' = <<NpArray(features)>>
    /\ pc' = "done"
    /\ UNCHANGED <<config, fasta, locals, exception, stream_error, observed>>

\* ----------------------------------------------------------- BAMFeaturizer
BAM_Begin ==
    /\ pc = "bam_begin"
    /\ features' = << >>
    /\ record_count' = 0
    /\ pileup_columns' = << >>
    /\ initial_position' = Tell(datapoint)
    /\ pc' = IF get_pileup THEN "bam_pileup_call" ELSE "bam_restore"
    /\ UNCHANGED <<config, datapoint, fasta, record, pileup_iter, outcome,
                   observed>>

\* datapoint.pileup(): the pileup iterator is created on the same handle and
\* moves it to a position the library chooses
BAM_PileupCall ==
    /\ pc = "bam_pileup_call"
    /\ pileup_calls' = pileup_calls + 1
    /\ pileup_iter' = 0
    /\ \E p \in 0..Len(datapoint.records) :
          datapoint' = [datapoint EXCEPT !.pos = p]
    /\ pc' = "bam_pileup_for"
    /\ UNCHANGED <<config, fasta, features, record_count, pileup_columns,
                   initial_position, record, outcome, entry_position,
                   pileup_end, next_log, pre_next>>

\* for pileupcolumn in datapoint.pileup(): one column, or the end of the pass
BAM_PileupFor ==
    /\ pc = "bam_pileup_for"
    /\ IF pileup_iter < Len(datapoint.pileup)
       THEN /\ pileup_columns' =
                  Append(pileup_columns,
                         PileupInfo(datapoint.pileup[pileup_iter + 1]))
            /\ pileup_iter' = pileup_iter + 1
            /\ \E p \in 0..Len(datapoint.records) :
                  datapoint' = [datapoint EXCEPT !.pos = p]
            /\ UNCHANGED <<pc, pileup_end>>
       ELSE /\ pc' = "bam_restore"
            /\ pileup_end' = <<datapoint.pos>>
            /\ UNCHANGED <<pileup_columns, pileup_iter, datapoint>>
    /\ UNCHANGED <<config, fasta, features, record_count, initial_position,
                   record, outcome, entry_position, pileup_calls, next_log,
                   pre_next>>

\* datapoint.seek(initial_position), run whether or not get_pileup is set
BAM_Restore ==
    /\ pc = "bam_restore"
    /\ datapoint' = Seek(datapoint, initial_position)
    /\ pc' = "bam_for"
    /\ UNCHANGED <<config, fasta, locals, outcome, observed>>

\* for record in datapoint.  The guard on next_log caps the number of reads;
\* the loop never reaches it (C10_LoopInv: Len(next_log) <= Len(records)).
BAM_For ==
    /\ pc = "bam_for"
    /\ Len(next_log) <= MaxLen
    /\ IF AtEnd(datapoint)
       THEN /\ pc' = "bam_close"
            /\ UNCHANGED <<datapoint, record, next_log, pre_next>>
       ELSE /\ record' = <<NextRecord(datapoint)>>
            /\ datapoint' = Advance(datapoint)
            /\ next_log' = Append(next_log, datapoint.pos + 1)
            /\ pre_next' = <<datapoint.pos>>
            /\ pc' = "bam_body"
    /\ UNCHANGED <<config, fasta, features, record_count, pileup_columns,
                   initial_position, pileup_iter, outcome, entry_position,
                   pileup_calls, pileup_end>>

BAM_Body ==
    /\ pc = "bam_body"
    /\ initial_position' = LoopTell(datapoint)
    /\ features' = Append(features,
                          BAMRow(record[1], get_pileup, pileup_columns))
    /\ record_count' = record_count + 1
    /\ datapoint' = Seek(datapoint, initial_position')
    /\ pc' = IF CapReached(record_count + 1, max_records)
             THEN "bam_close" ELSE "bam_for"
    /\ UNCHANGED <<config, fasta, pileup_columns, record, pileup_iter,
                   outcome, observed>>

BAM_Return ==
    /\ pc = "bam_close"
    /\ datapoint' = Close(datapoint)
    /\ returned' = <<NpArray(features)>>
    /\ pc' = "done"
    /\ UNCHANGED <<config, fasta, locals, exception, stream_error, observed>>

\* --------------------------------------------------------- FASTAFeaturizer
\* data = []; with pysam.FastxFile(datapoint) as fasta
FASTA_Begin ==
    /\ pc = "fasta_begin"
    /\ features' = << >>
    /\ fasta' = [fasta EXCEPT !.opened = TRUE]
    /\ pc' = "fasta_for"
    /\ UNCHANGED <<config, datapoint, record_count, pileup_columns,
                   initial_position, record, pileup_iter, outcome, observed>>

FASTA_For ==
    /\ pc = "fasta_for"
    /\ IF fasta.pos >= Len(fasta.entries)
       THEN /\ pc' = "fasta_exit"
            /\ UNCHANGED <<fasta, record>>
       ELSE /\ record' = <<fasta.entries[fasta.pos + 1]>>
            /\ fasta' = [fasta EXCEPT !.pos = fasta.pos + 1]
            /\ pc' = "fasta_body"
    /\ UNCHANGED <<config, datapoint, features, record_count, pileup_columns,
                   initial_position, pileup_iter, outcome, observed>>

FASTA_Body ==
    /\ pc = "fasta_body"
    /\ features' = Append(features, FASTARow(record[1]))
    /\ pc' = "fasta_for"
    /\ UNCHANGED <<config, datapoint, fasta, record_count, pileup_columns,
                   initial_position, record, pileup_iter, outcome, observed>>

\* the with block is left (the file is closed), then the table is returned
FASTA_Return ==
    /\ pc = "fasta_exit"
    /\ fasta' = [fasta EXCEPT !.closed = TRUE]
    /\ returned' = <<NpArray(features)>>
    /\ pc' = "done"
    /\ UNCHANGED <<config, datapoint, locals, exception, stream_error,
                   observed>>

\* ------------------------------------------------------------------ errors
\* the places where _featurize uses the stream: iteration, attribute access,
\* tell, seek, pileup, opening the FASTA file
StreamUse ==
    {"sam_for", "sam_body", "cram_for", "cram_body",
     "bam_begin", "bam_pileup_call", "bam_pileup_for", "bam_restore",
     "bam_for", "bam_body",
     "fasta_begin", "fasta_for", "fasta_body"}

\* The stream raises.  No _featurize has a handler; only the with block of
\* the FASTA featurizer runs on the way out and closes the file it opened.
Raise ==
    /\ pc \in StreamUse
    /\ \E e \in Errors :
          /\ stream_error' = e
          /\ exception' = Propagate(e, features).exception
          /\ returned' = Propagate(e, features).returned
    /\ fasta' = IF cls = "FASTA" /\ fasta.opened
                THEN [fasta EXCEPT !.closed = TRUE] ELSE fasta
    /\ pc' = "raised"
    /\ UNCHANGED <<config, datapoint, locals, observed>>

Next ==
    \/ SAM_Begin \/ SAM_For \/ SAM_Body \/ SAM_Return
    \/ CRAM_Begin \/ CRAM_For \/ CRAM_Body \/ CRAM_Return
    \/ BAM_Begin \/ BAM_PileupCall \/ BAM_PileupFor \/ BAM_Restore
    \/ BAM_For \/ BAM_Body \/ BAM_Return
    \/ FASTA_Begin \/ FASTA_For \/ FASTA_Body \/ FASTA_Return
    \/ Raise

Spec == Init /\ [][Next]_vars

\* the call is the only thread of control and runs until it returns or raises
FairSpec == Spec /\ WF_vars(Next)

Ended == pc \in {"done", "raised"}

TypeOK ==
    /\ cls \in {"SAM", "BAM", "CRAM", "FASTA"}
    /\ max_records \in Caps
    /\ get_pileup \in BOOLEAN
    /\ datapoint.pos \in 0..Len(datapoint.records)
    /\ record_count = IF cls = "FASTA" THEN 0 ELSE Len(features)
    /\ Len(returned) <= 1

\* ------------------------------------------------------------ vocabulary
Aligned == {"SAM", "BAM", "CRAM"}

Min(a, b) == IF a <= b THEN a ELSE b

\* the number of records the cap lets through
Allowed(n) == IF max_records = MaxRecordsNone THEN n ELSE Min(n, max_records)

\* the row the documentation of each class lists for a record
DocumentedRow(r) ==
    IF cls = "BAM"
    THEN <<r.query_name, r.query_sequence, r.query_length, r.reference_name,
           r.reference_start, r.cigar, r.mapping_quality, r.is_reverse,
           [ndarray |-> r.query_qualities]>>
         \o (IF get_pileup
             THEN << [i \in 1..Len(datapoint.pileup) |->
                        PileupInfo(datapoint.pileup[i])] >>
             ELSE << >>)
    ELSE <<r.query_name, r.query_sequence, r.query_length, r.reference_name,
           r.reference_start, r.cigar, r.mapping_quality>>

\* every pileup column of the stream, converted, in the stream's order
FullPileup ==
    [i \in 1..Len(datapoint.pileup) |-> PileupInfo(datapoint.pileup[i])]

\* the handle the call works on is open
HandleOpen ==
    IF cls = "FASTA" THEN fasta.opened /\ ~fasta.closed
    ELSE ~datapoint.closed

InMainPass == pc \in {"bam_for", "bam_body", "bam_close", "done"}

\* ------------------------------------------------------------------ claims

\* C1: for SAM, BAM and CRAM, a call that returns has at most max_records
\* rows when max_records is set (0 included), and exactly as many rows as the
\* stream has records when it is unset.
C1_RowCountWithinCap ==
    (pc = "done" /\ cls \in Aligned) =>
        IF max_records # MaxRecordsNone
        THEN Len(returned[1].rows) <= max_records
        ELSE Len(returned[1].rows) = Len(datapoint.records)

\* C2: for SAM, BAM and CRAM, a call with max_records = 0 builds no row from
\* any record, returns an empty table and has closed the stream when it
\* returns.
C2_ZeroCapEmpty ==
    (cls \in Aligned /\ max_records = 0) =>
        /\ Len(features) = 0
        /\ pc = "done" => /\ returned[1].rows = << >>
                          /\ datapoint.closed

\* C3: for every featurizer, when the call has ended (returned or raised)
\* the stream / file handle is not open.
C3_HandleClosedAtEnd == Ended => ~HandleOpen

\* C4: for SAM, BAM and CRAM, the returned table is exactly the rows of the
\* first min(n, max_records) records, in stream order, each field verbatim.
C4_FirstRecordsInOrder ==
    (pc = "done" /\ cls \in Aligned) =>
        /\ Len(returned[1].rows) = Allowed(Len(datapoint.records))
        /\ \A i \in 1..Len(returned[1].rows) :
              returned[1].rows[i] = DocumentedRow(datapoint.records[i])

\* C5: in a BAM call with get_pileup the pileup pass is never run a second
\* time, it has run once and to its end before the first record of the main
\* pass is read, and every row carries the complete pileup list as its tenth
\* field, the same in every row.
C5_PileupOncePerCall ==
    (cls = "BAM" /\ get_pileup) =>
        /\ pileup_calls <= 1
        /\ (InMainPass \/ Len(next_log) > 0) =>
              /\ pileup_calls = 1
              /\ pileup_columns = FullPileup
        /\ \A i \in 1..Len(features) :
              /\ Len(features[i]) = 10
              /\ features[i][10] = FullPileup
        /\ pc = "done" =>
              \A i \in 1..Len(returned[1].rows) :
                 returned[1].rows[i][10] = FullPileup

C5_Witness ==
    /\ cls = "BAM" /\ get_pileup /\ pc = "done"
    /\ pileup_calls = 1
    /\ Len(datapoint.pileup) = 2
    /\ max_records = 2
    /\ Len(datapoint.records) = 3
    /\ Len(returned[1].rows) = 2
    /\ returned[1].rows[1][1] # returned[1].rows[2][1]
    /\ returned[1].rows[1][10] = returned[1].rows[2][10]

\* C6: in a BAM call the stream position at the start of the main pass is
\* the position the stream had when the call began, whether or not the
\* pileup pass ran, and the first record the main pass reads is the one at
\* that position.
C6_PositionRoundTrip ==
    cls = "BAM" =>
        /\ (pc = "bam_for" /\ record_count = 0) =>
              datapoint.pos = entry_position
        /\ Len(next_log) >= 1 => next_log[1] = entry_position + 1

C6_Witness ==
    /\ cls = "BAM" /\ get_pileup
    /\ pc = "bam_body" /\ record_count = 0
    /\ Len(pileup_end) = 1
    /\ pileup_end[1] # entry_position
    /\ next_log = <<entry_position + 1>>

\* C7: a FASTA call that returns gives one row per entry of the file, row i
\* being [name, sequence] of entry i, none dropped.
C7_FastaRows ==
    (cls = "FASTA" /\ pc = "done") =>
        /\ Len(returned[1].rows) = Len(fasta.entries)
        /\ \A i \in 1..Len(fasta.entries) :
              returned[1].rows[i] =
                 <<fasta.entries[i].name, fasta.entries[i].sequence>>
        /\ Len(fasta.entries) > 0 =>
              returned[1].shape = <<Len(fasta.entries), 2>>

C7_Witness ==
    /\ cls = "FASTA" /\ pc = "done"
    /\ fasta.entries = <<EntryA, EntryB>>
    /\ returned[1].rows = << <<"seq1", "ACGT">>, <<"seq2", "TTTT">> >>

\* C8: once the stream has raised, the call has ended with that same error
\* and has returned no table; a call that returns a table met no error.
C8_ErrorPropagates ==
    /\ stream_error # None =>
          /\ pc = "raised"
          /\ exception = stream_error
          /\ returned = << >>
    /\ pc = "done" => (stream_error = None /\ exception = None)
    /\ pc = "raised" => stream_error # None

C8_Witness ==
    /\ pc = "raised"
    /\ cls \in Aligned
    /\ Len(features) >= 2
    /\ exception = "OSError"
    /\ returned = << >>

\* C9: every BAM row has 9 fields when get_pileup is false and 10 when it is
\* true, the tenth being the pileup list; when get_pileup is false no pileup
\* pass is run and no pileup list is built.
C9_BamArity ==
    cls = "BAM" =>
        /\ \A i \in 1..Len(features) :
              /\ Len(features[i]) = IF get_pileup THEN 10 ELSE 9
              /\ SubSeq(features[i], 1, 9) = BAMBaseRow(datapoint.records[i])
              /\ get_pileup => features[i][10] = pileup_columns
        /\ ~get_pileup => (pileup_calls = 0 /\ pileup_columns = << >>)
        /\ (pc = "done" /\ Len(features) > 0) =>
              returned[1].shape =
                 <<Len(features), IF get_pileup THEN 10 ELSE 9>>

C9_Witness ==
    /\ cls = "BAM" /\ ~get_pileup /\ pc = "done"
    /\ Len(datapoint.pileup) = 2
    /\ returned[1].shape = <<3, 9>>

\* the records read so far are consecutive, each the successor of the last
Consecutive(log) == \A i \in 1..(Len(log) - 1) : log[i + 1] = log[i] + 1

\* C10 as stated: in the BAM main pass the position saved for a record is
\* the position before the iterator advanced to read that record, it is
\* restored after the row is built, and each record read is the successor
\* of the previous one.
C10_SavedBeforeAdvance ==
    (cls = "BAM" /\ Len(next_log) >= 1 /\ pc \in {"bam_for", "bam_close", "done"})
        => /\ initial_position = pre_next[1]
           /\ datapoint.pos = initial_position \/ pc = "done"
           /\ Consecutive(next_log)

\* the saved position is the one after the record was read, the restore
\* leaves the stream there, and the reads are consecutive and no more than
\* the stream has records
C10_LoopInv ==
    cls = "BAM" =>
        /\ Consecutive(next_log)
        /\ Len(next_log) <= Len(datapoint.records)
        /\ (Len(next_log) >= 1 /\ pc \in {"bam_for", "bam_close", "done"}) =>
              /\ initial_position = pre_next[1] + 1
              /\ initial_position = next_log[Len(next_log)]
              /\ datapoint.pos = initial_position

\* C10 (amended): in the BAM main pass the position is saved right after the
\* iterator has advanced to a record and restored after the row is built;
\* this does not disturb the iteration: each record read is the successor of
\* the previous one and the call ends.
C10_SavedAfterAdvance ==
    /\ []C10_LoopInv
    /\ (cls = "BAM") => <>Ended

C10_Witness ==
    /\ cls = "BAM" /\ pc = "done"
    /\ max_records = MaxRecordsNone
    /\ next_log = <<1, 2, 3>>
    /\ initial_position = 3

====
